---------------------------- MODULE Spec2Model ----------------------------
(***************************************************************************)
(* A model of zathura-note (src/zathura-note/note.c): the plist path       *)
(* resolver plist_access, the document geometry derived by                 *)
(* note_document_open, and the page windows of note_page_init with the    *)
(* renderers that test content against them.                               *)
(***************************************************************************)
EXTENDS Integers, Sequences, FiniteSets, TLC

VARIABLES
    objects,  \* the plist handed to plist_access (the $objects node table)
    args,     \* the variadic arguments of the plist_access call
    acc,      \* the frame of the running plist_access call
    file,     \* the .note file note_document_open is given
    doc,      \* the zathura document: error returned, data, page count
    pages,    \* the note_page_t of each zathura page: its window, when live
    canvas    \* what the latest note_page_render_cairo of each page drew

vars == <<objects, args, acc, file, doc, pages, canvas>>

Min(a, b) == IF a < b THEN a ELSE b
Max(a, b) == IF a > b THEN a ELSE b

(***************************************************************************)
(* plist nodes.  A node is a record with its plist_type and its value; a   *)
(* null plist_t is NULL.                                                   *)
(***************************************************************************)
NULL == [type |-> "none"]
Real(v) == [type |-> "real", val |-> v]
UInt(v) == [type |-> "uint", val |-> v]
Bool(v) == [type |-> "boolean", val |-> v]
String(s) == [type |-> "string", str |-> s]
Data(d) == [type |-> "data", bytes |-> d]
Date(v) == [type |-> "date", val |-> v]
Uid(k) == [type |-> "uid", uid |-> k]
Array(items) == [type |-> "array", items |-> items]
Dict(map) == [type |-> "dict", map |-> map]

\* plist_get_node_type: PLIST_NONE for a null node
plist_get_node_type(node) == node.type

\* a lookup that wraps an index beyond the array instead of failing
plist_array_get_item_wrapping(node, n) ==
    IF node.type = "array" /\ n >= 0 /\ Len(node.items) > 0
    THEN node.items[(n % Len(node.items)) + 1]
    ELSE NULL

\* plist_array_get_item: the n-th item (0-based), null when node is no array
\* or n is outside it
plist_array_get_item(node, n) ==
    IF node.type = "array" /\ n >= 0 /\ n < Len(node.items)
    THEN node.items[n + 1]
    ELSE NULL

\* plist_dict_get_item: the value stored under key, null when node is no
\* dict or holds no such key
plist_dict_get_item(node, key) ==
    IF node.type = "dict" /\ key \in DOMAIN node.map
    THEN node.map[key]
    ELSE NULL

(***************************************************************************)
(* The variadic arguments of plist_access: an int (array index), a string  *)
(* (dict key) or a pointer to an output slot of the caller, which has the  *)
(* C type the caller declared it with.                                     *)
(***************************************************************************)
IntArg(n) == [kind |-> "int", n |-> n]
StrArg(s) == [kind |-> "str", s |-> s]
OutArg(t) == [kind |-> "out", slot |-> t]

\* va_arg: the p-th argument; past the last one the read is of whatever the
\* registers or the stack hold
va_arg(a, p) == IF p <= Len(a) THEN a[p] ELSE [kind |-> "past"]

\* the most steps between the first index and the output slots
MaxSteps == 2

\* a key that no dict of the model holds
AbsentKey == "?"

\* the count of loop iterations saturates here, above any bound a claim states
IterCap == 2 * (MaxSteps + 3) + 2

\* plist_array_get_item_index of a node that is no item of an array
NoPosition == 0 - 1

\* the frame of a call that has not started; pos is the position of current
\* in its parent when that is an array, as plist_array_get_item_index
\* reports it
IdleFrame ==
    [pc |-> "idle", i |-> 0, ap |-> 1, current |-> NULL, pos |-> NoPosition,
     ret |-> NULL, writes |-> <<>>, log |-> <<>>, iter |-> 0]

\* note.c:189-199: the array check and the locals' initial values
plist_access_enter(plist) ==
    IF plist.type # "array"
    THEN [IdleFrame EXCEPT !.pc = "done", !.log = <<"OnlyMainArray">>]
    ELSE [IdleFrame EXCEPT !.pc = "loop", !.current = plist]

\* the write of a leaf's value through the argument at position p
Write(p, kind, node) == [slot |-> p, kind |-> kind, node |-> node]

\* the frames after a terminal extraction that writes ws (goto end); a write
\* through an argument that is no pointer to a slot is a wild write: the
\* process faults, or memory is overwritten and the call goes on
Extract(a, st, ws, lg) ==
    LET wild == \E k \in 1..Len(ws) : va_arg(a, ws[k].slot).kind # "out"
        goes == [st EXCEPT !.pc = "end", !.ap = st.ap + Len(ws),
                           !.writes = st.writes \o ws, !.log = st.log \o lg,
                           !.iter = Min(st.iter + 1, IterCap)]
    IN  IF wild THEN {goes, [goes EXCEPT !.pc = "crashed"]} ELSE {goes}

\* the looked-up node replaces current; a failed lookup is logged
\* (note.c:206-208, 212-214)
Lookup(st, found, at, msg) ==
    [st EXCEPT !.current = found, !.ap = st.ap + 1, !.i = st.i + 1,
               !.pos = IF found = NULL THEN NoPosition ELSE at,
               !.log = IF found = NULL THEN st.log \o <<msg>> ELSE st.log,
               !.iter = Min(st.iter + 1, IterCap)]

\* note.c:201-254: one evaluation of the loop condition and, when it holds,
\* one iteration of the loop; the set of frames it can leave
plist_access_loop(plist, a, st) ==
    LET length == Len(a)
        type == plist_get_node_type(st.current)
        arg == va_arg(a, st.ap)
    IN  IF ~(st.i < length /\ st.current # NULL)
        THEN {[st EXCEPT !.pc = "end",
                         !.log = IF st.i # length
                                 THEN st.log \o <<"UnexpectedEnd">>
                                 ELSE st.log]}
        ELSE CASE type = "array" ->
                  \* va_arg(va, int) of an argument that is no int reads
                  \* some int
                  LET idx == IF arg.kind = "int" THEN {arg.n}
                             ELSE 0..Len(st.current.items)
                  IN  {Lookup(st, plist_array_get_item(st.current, n), n, "NoIndex")
                         : n \in idx}
               [] type = "dict" ->
                  \* va_arg(va, const char *) of an argument that is no
                  \* string reads the bytes some pointer leads to, or faults
                  LET keys == IF arg.kind = "str" THEN {arg.s}
                              ELSE DOMAIN st.current.map \cup {AbsentKey}
                      found == {Lookup(st, plist_dict_get_item(st.current, k), NoPosition, "NoKey")
                                  : k \in keys}
                  IN  IF arg.kind = "str" THEN found
                      ELSE found \cup {[st EXCEPT !.pc = "crashed"]}
               [] type = "uid" ->
                  \* i-- and the loop's i++: the hop counts no step
                  {[st EXCEPT !.current = plist_array_get_item(plist, st.current.uid),
                              !.pos = IF plist_array_get_item(plist, st.current.uid) = NULL
                                      THEN NoPosition ELSE st.current.uid,
                              !.iter = Min(st.iter + 1, IterCap)]}
               [] type = "data" ->
                  Extract(a, st,
                          <<Write(st.ap, "data_ptr", st.current),
                            Write(st.ap + 1, "len", st.current)>>,
                          IF st.i + 2 < length THEN <<"UnexpectedData">> ELSE <<>>)
               [] type = "string" ->
                  Extract(a, st,
                          <<Write(st.ap, "string_ptr", st.current),
                            Write(st.ap + 1, "len", st.current)>>,
                          IF st.i + 2 < length THEN <<"UnexpectedString">> ELSE <<>>)
               [] type = "boolean" ->
                  Extract(a, st, <<Write(st.ap, "bool", st.current)>>,
                          IF st.i + 1 < length THEN <<"UnexpectedBool">> ELSE <<>>)
               [] type = "uint" ->
                  Extract(a, st, <<Write(st.ap, "uint", st.current)>>,
                          IF st.i + 1 < length THEN <<"UnexpectedUint">> ELSE <<>>)
               [] type = "real" ->
                  Extract(a, st, <<Write(st.ap, "real", st.current)>>,
                          IF st.i + 1 < length THEN <<"UnexpectedReal">> ELSE <<>>)
               [] OTHER ->
                  {[st EXCEPT !.i = st.i + 1, !.log = st.log \o <<"UnknownType">>,
                              !.iter = Min(st.iter + 1, IterCap)]}

\* the return without the hop of a final UID
plist_access_end_no_hop(plist, st) ==
    [st EXCEPT !.pc = "done", !.ret = st.current,
               !.log = IF st.current = NULL THEN st.log \o <<"FatalFailure">>
                       ELSE st.log]

\* note.c:256-269: the label end; one hop when current is a UID, the return
plist_access_end(plist, st) ==
    LET current == IF st.current.type = "uid"
                   THEN plist_array_get_item(plist, st.current.uid)
                   ELSE st.current
    IN  [st EXCEPT !.pc = "done", !.current = current, !.ret = current,
                   !.pos = IF st.current.type # "uid" THEN st.pos
                           ELSE IF current = NULL THEN NoPosition ELSE st.current.uid,
                   !.log = IF current = NULL THEN st.log \o <<"FatalFailure">>
                           ELSE st.log]

\* plist_access as its callers see it: the frames a call can end in; a call
\* that is still looping when the fuel is spent has hung
RECURSIVE plist_access_run(_, _, _, _)
plist_access_run(plist, a, st, fuel) ==
    IF st.pc \in {"done", "crashed"} THEN {st}
    ELSE IF fuel = 0 THEN {[st EXCEPT !.pc = "hung"]}
    ELSE UNION {plist_access_run(plist, a, nxt, fuel - 1) :
                  nxt \in IF st.pc = "loop" THEN plist_access_loop(plist, a, st)
                          ELSE {plist_access_end(plist, st)}}

plist_access(plist, a) ==
    plist_access_run(plist, a, plist_access_enter(plist), IterCap + 3)

\* no file given, no document opened
NoFile == [kind |-> "none"]
NoDocument ==
    [pc |-> "closed", error |-> "NONE", data |-> NULL, pages |-> 0, held |-> {},
     steps |-> <<>>]

(***************************************************************************)
(* The bounded inputs of a plist_access call.                              *)
(***************************************************************************)
SESSION_OBJECTS_GENERAL_INFO == 1
SESSION_OBJECTS_GLOBAL_TEXT_STORE == 2

Leaves == {Real(15), UInt(7), Bool(1), String("s"), Data(<<1, 2>>), Date(0)}

\* node tables of three entries; 3 is the index of no entry
NoEntry == SESSION_OBJECTS_GLOBAL_TEXT_STORE + 1

Entry0 == {Dict([k \in {"a"} |-> Uid(0)]), Dict([k \in {"a"} |-> Uid(1)]),
           Array(<<Uid(1)>>), Uid(0), Uid(1), Real(15)}
Entry1 == {Dict([k \in {"a"} |-> Uid(2)]), Dict([k \in {"a"} |-> Uid(NoEntry)]),
           Array(<<Uid(2)>>), Uid(1), Uid(2), Uid(NoEntry), String("s")}
Entry2 == Leaves \cup {Uid(0), Uid(2)}

Tables == {Array(<<e0, e1, e2>>) : e0 \in Entry0, e1 \in Entry1, e2 \in Entry2}

Steps == {IntArg(0), StrArg("a"), StrArg("b")}

RECURSIVE SeqsUpTo(_, _)
SeqsUpTo(S, n) ==
    IF n = 0 THEN {<<>>}
    ELSE LET shorter == SeqsUpTo(S, n - 1)
         IN  shorter \cup {Append(s, x) : s \in {t \in shorter : Len(t) = n - 1}, x \in S}

Terminals ==
    {<<>>, <<OutArg("real")>>, <<OutArg("bool")>>, <<OutArg("uint")>>,
     <<OutArg("string_ptr"), OutArg("len")>>, <<OutArg("data_ptr"), OutArg("len")>>}

Paths ==
    {<<IntArg(first)>> \o mid \o term :
        first \in {0, NoEntry}, mid \in SeqsUpTo(Steps, MaxSteps), term \in Terminals}

(***************************************************************************)
(* SpecAccess: one call of plist_access, step by step.                     *)
(***************************************************************************)
InitAccess ==
    /\ objects \in Tables \cup {Dict([k \in {"a"} |-> Uid(0)])}
    /\ args \in Paths
    /\ acc = IdleFrame
    /\ file = NoFile
    /\ doc = NoDocument
    /\ pages = <<>>
    /\ canvas = <<>>

AccessCall ==
    /\ acc.pc = "idle"
    /\ acc' = plist_access_enter(objects)
    /\ UNCHANGED <<objects, args, file, doc, pages, canvas>>

AccessLoop ==
    /\ acc.pc = "loop"
    /\ acc' \in plist_access_loop(objects, args, acc)
    /\ UNCHANGED <<objects, args, file, doc, pages, canvas>>

AccessEnd ==
    /\ acc.pc = "end"
    /\ acc' = plist_access_end(objects, acc)
    /\ UNCHANGED <<objects, args, file, doc, pages, canvas>>

NextAccess == AccessCall \/ AccessLoop \/ AccessEnd

SpecAccess == InitAccess /\ [][NextAccess]_vars

(***************************************************************************)
(* Following a path by hand, for the claims about plist_access.            *)
(***************************************************************************)
Range(f) == {f[x] : x \in DOMAIN f}

\* the node a reference stands for: the node-table entry at its index
Deref(table, node) ==
    IF node.type = "uid" THEN
        IF node.uid \in 0..(Len(table.items) - 1) THEN table.items[node.uid + 1]
        ELSE NULL
    ELSE node

\* the node one step leads to from a node that is no reference
StepFrom(node, step) ==
    CASE step.kind = "int" /\ node.type = "array" /\ step.n \in 0..(Len(node.items) - 1) ->
            node.items[step.n + 1]
      [] step.kind = "str" /\ node.type = "dict" /\ step.s \in DOMAIN node.map ->
            node.map[step.s]
      [] OTHER -> NULL

\* the node reached from node by the steps, every reference met replaced by
\* its table entry; NULL when a step cannot be taken
RECURSIVE Manual(_, _, _)
Manual(table, node, steps) ==
    LET n == Deref(table, node)
    IN  IF steps = <<>> \/ n = NULL THEN n
        ELSE Manual(table, StepFrom(n, Head(steps)), Tail(steps))

\* every step is applied to a node of its kind: an index to an array, a key
\* to a dict
RECURSIVE Fits(_, _, _)
Fits(table, node, steps) ==
    LET n == Deref(table, node)
    IN  \/ steps = <<>>
        \/ n = NULL
        \/ /\ \/ Head(steps).kind = "int" /\ n.type = "array"
              \/ Head(steps).kind = "str" /\ n.type = "dict"
           /\ Fits(table, StepFrom(n, Head(steps)), Tail(steps))

\* the nodes of a node: itself and the nodes it holds
RECURSIVE NodesOf(_)
NodesOf(node) ==
    {node} \cup
    CASE node.type = "array" -> UNION {NodesOf(node.items[k]) : k \in DOMAIN node.items}
      [] node.type = "dict" -> UNION {NodesOf(node.map[k]) : k \in DOMAIN node.map}
      [] OTHER -> {}

\* one reference per edge: no reference of the table leads to a reference
WellFormed(table) ==
    /\ table.type = "array"
    /\ \A n \in NodesOf(table) : n.type = "uid" => Deref(table, n).type # "uid"

\* the arguments that are steps, and those that are output slots
NavPrefix(a) == SelectSeq(a, LAMBDA x : x.kind # "out")
OutSlots(a) == SelectSeq(a, LAMBDA x : x.kind = "out")
IsNavPath(a) == OutSlots(a) = <<>>

FailingStep ==
    LET arg == va_arg(args, acc.ap)
    IN  /\ acc.pc = "loop"
        /\ acc.i < Len(args)
        /\ \/ /\ acc.current.type = "array"
              /\ arg.kind = "int"
              /\ arg.n \notin 0..(Len(acc.current.items) - 1)
           \/ /\ acc.current.type = "dict"
              /\ arg.kind = "str"
              /\ arg.s \notin DOMAIN acc.current.map
           \/ /\ acc.current.type = "uid"
              /\ acc.current.uid \notin 0..(Len(objects.items) - 1)

\* C3: a failing step leaves no current node and has written nothing; from
\* then on no argument is consumed, nothing is written, and the call
\* returns null.
C3_FailureStops ==
    [][/\ FailingStep => (acc'.current = NULL /\ acc'.writes = <<>>)
       /\ (acc.pc \in {"loop", "end"} /\ acc.current = NULL)
            => /\ acc'.pc = (IF acc.pc = "loop" THEN "end" ELSE "done")
               /\ acc'.current = NULL
               /\ acc'.ap = acc.ap
               /\ acc'.writes = <<>>
               /\ acc'.ret = NULL]_vars

\* a call has returned null after an absent key, output slots left unused
C3_Witness ==
    /\ acc.pc = "done"
    /\ "NoKey" \in Range(acc.log)
    /\ acc.ret = NULL
    /\ acc.ap <= Len(args)
    /\ OutSlots(args) # <<>>
    /\ acc.writes = <<>>

\* the leaf type the output slots of a call are declared for
Expected(a) ==
    CASE OutSlots(a) = <<>> -> "none"
      [] OutSlots(a)[1].slot = "string_ptr" -> "string"
      [] OutSlots(a)[1].slot = "data_ptr" -> "data"
      [] OutSlots(a)[1].slot = "bool" -> "boolean"
      [] OTHER -> OutSlots(a)[1].slot

LeafTypes == {"real", "boolean", "uint", "string", "data"}

\* C4: when the leaf a path reaches is of another type than the output
\* slots are declared for, plist_access returns null and writes nothing,
\* and no write goes through a slot declared for another type.
C4_MismatchFails ==
    LET reached == Manual(objects, objects, NavPrefix(args))
    IN  (/\ acc.pc = "done"
         /\ WellFormed(objects)
         /\ Fits(objects, objects, NavPrefix(args))
         /\ Expected(args) \in LeafTypes
         /\ reached.type \in LeafTypes
         /\ reached.type # Expected(args))
        => /\ acc.ret = NULL
           /\ acc.writes = <<>>
           /\ \A k \in DOMAIN acc.writes :
                 va_arg(args, acc.writes[k].slot) = OutArg(acc.writes[k].kind)

(***************************************************************************)
(* Document geometry: plist_page_count, plist_page_ratio, plist_page_width *)
(* and note_document_open.  Widths and y-coordinates are whole units; a    *)
(* ratio and a page height are in thousandths.                             *)
(***************************************************************************)
DefaultWidth == 500
InvalidWidthReset == 500
DefaultRatio == 1414
Legacy13Ratio == 1300
Thousand == 1000

\* the write a call made through its argument at position p, if any
SlotWrite(fr, p) ==
    IF \E k \in DOMAIN fr.writes : fr.writes[k].slot = p
    THEN fr.writes[CHOOSE k \in DOMAIN fr.writes : fr.writes[k].slot = p]
    ELSE Write(p, "none", NULL)

\* a const char * of the caller after the call: the string written, or a
\* pointer that leads to no bytes
StringSlot(fr, p) ==
    LET w == SlotWrite(fr, p)
    IN  IF w.kind = "string_ptr" THEN w.node.str ELSE ""

\* a const float * of the caller after the call: the floats of the data
FloatsSlot(fr, p) ==
    LET w == SlotWrite(fr, p)
    IN  IF w.kind = "data_ptr" THEN w.node.bytes ELSE <<>>

\* a size_t of the caller, 0 before the call: the length written, if any
LenSlot(fr, p) ==
    LET w == SlotWrite(fr, p)
    IN  CASE w.kind = "len" /\ w.node.type = "string" -> Len(w.node.str)
          [] w.kind = "len" /\ w.node.type = "data" -> Len(w.node.bytes)
          [] OTHER -> 0

\* the doubles a value of another type leaves in a double when it is
\* written over it
GarbageReals == {0, 700}

\* a double of the caller, init before the call
RealSlot(fr, p, init) ==
    LET w == SlotWrite(fr, p)
    IN  CASE w.kind = "none" -> {init}
          [] w.kind = "real" -> {w.node.val}
          [] OTHER -> GarbageReals

\* memcmp(a, lit, n) of the n bytes a leads to with a string literal, which
\* ends in a NUL that no byte of a equals: 0 when the bytes are equal
memcmp(a, lit, n) ==
    IF n <= Len(lit) /\ SubSeq(a, 1, n) = SubSeq(lit, 1, n) THEN 0 ELSE 1

\* the floats a read past the end of the point array can find
OobFloats == {0, 1500}

\* note.c:302-305 with curves[i] in place of curves[i + 1]
RECURSIVE HighestX(_, _, _, _)
HighestX(curves, i, max, oob) ==
    IF ~(i < Len(curves)) THEN max
    ELSE HighestX(curves, i + 2, IF curves[i + 1] > max THEN curves[i + 1] ELSE max, oob)

\* note.c:302-305: the highest y of the points from index i on, max so far;
\* oob is what curves[i + 1] reads past the end of an odd-sized array
RECURSIVE HighestY(_, _, _, _)
HighestY(curves, i, max, oob) ==
    IF ~(i < Len(curves)) THEN max
    ELSE LET y == IF i + 1 < Len(curves) THEN curves[i + 2] ELSE oob
         IN  HighestY(curves, i + 2, IF y > max THEN y ELSE max, oob)

\* the outcome of a callee that did not return
Abnormal(fr) == [st |-> fr.pc, val |-> 0]
Returns(v) == [st |-> "ok", val |-> v]

\* note.c:294-308: the page counts the call can return
plist_page_count(objs, page_height) ==
    UNION {IF fr.pc # "done" THEN {Abnormal(fr)}
           ELSE LET curves == FloatsSlot(fr, 5)
                    count == IF curves = <<>> THEN 0 ELSE LenSlot(fr, 6)
                IN  {Returns(((HighestY(SubSeq(curves, 1, count), 0, 0, oob) * Thousand)
                               \div page_height) + 1)
                       : oob \in IF count % 2 = 1 THEN OobFloats ELSE {0}}
           : fr \in plist_access(objs,
                       <<IntArg(SESSION_OBJECTS_GLOBAL_TEXT_STORE),
                         StrArg("Handwriting Overlay"), StrArg("SpatialHash"),
                         StrArg("curvespoints"), OutArg("data_ptr"), OutArg("len")>>)}

\* note.c:310-329: the ratios the call can return, in thousandths
plist_page_ratio(objs) ==
    {IF fr.pc # "done" THEN Abnormal(fr)
     ELSE LET type == StringSlot(fr, 5)
              type_length == LenSlot(fr, 6)
          IN  IF memcmp(type, "Legacy:13", type_length) = 0
              THEN Returns(Legacy13Ratio)
              ELSE Returns(DefaultRatio)
     : fr \in plist_access(objs,
                 <<IntArg(SESSION_OBJECTS_GENERAL_INFO),
                   StrArg("NBNoteTakingSessionDocumentPaperLayoutModelKey"),
                   StrArg("documentPaperAttributes"), StrArg("paperIdentifier"),
                   OutArg("string_ptr"), OutArg("len")>>)}

\* note.c:331-351: the widths the call can return
plist_page_width(objs) ==
    UNION {IF fr.pc # "done" THEN {Abnormal(fr)}
           ELSE LET class == StringSlot(fr, 5)
                    class_length == LenSlot(fr, 6)
                IN  IF memcmp(class, "NBReflowStateReflowable", class_length) = 0
                    THEN {Returns(DefaultWidth)}
                    ELSE IF memcmp(class, "NBReflowStateLocked", class_length) = 0
                    THEN UNION {IF f2.pc # "done" THEN {Abnormal(f2)}
                                ELSE {Returns(v) : v \in RealSlot(f2, 4, DefaultWidth)}
                                : f2 \in plist_access(objs,
                                           <<IntArg(SESSION_OBJECTS_GLOBAL_TEXT_STORE),
                                             StrArg("reflowState"),
                                             StrArg("pageWidthInDocumentCoordsKey"),
                                             OutArg("real")>>)}
                    ELSE {Returns(DefaultWidth)}
           : fr \in plist_access(objs,
                       <<IntArg(SESSION_OBJECTS_GLOBAL_TEXT_STORE),
                         StrArg("reflowState"), StrArg("$class"), StrArg("$classname"),
                         OutArg("string_ptr"), OutArg("len")>>)}

\* the steps of note_document_open, in the order of note.c:454-507
OpenSteps == <<"open_container", "deserialize", "validate", "derive_geometry">>

\* a document whose open ended in a return of error e during step n,
\* holding resources h
Failed(e, h, n) ==
    [pc |-> "failed", error |-> e, data |-> NULL, pages |-> 0, held |-> h,
     steps |-> SubSeq(OpenSteps, 1, n)]

\* a document whose open did not return: a callee faulted or hung while the
\* geometry was derived, data being what zathura_document_set_data was
\* given before
Stopped(how, data, h) ==
    [pc |-> how, error |-> "NONE", data |-> data, pages |-> 0, held |-> h,
     steps |-> OpenSteps]

\* a node table that lets every $objects entry pass
AnyNodeTable(objs) == TRUE

\* note.c:487: PLIST_IS_ARRAY of the $objects entry
ValidNodeTable(objs) == objs.type = "array"

\* note.c:498-509: width, height and page count of the $objects array, the
\* document's data and page count set, ZATHURA_ERROR_OK returned
DeriveGeometry(objs, zip, h) ==
    UNION {IF w.st # "ok" THEN {Stopped(w.st, NULL, h)}
           ELSE LET width == IF w.val < 1 THEN InvalidWidthReset ELSE w.val
                IN  UNION {IF r.st # "ok" THEN {Stopped(r.st, NULL, h)}
                           ELSE LET height == width * r.val
                                    data == [objects |-> objs, zip |-> zip,
                                             width |-> width, height |-> height]
                                IN  {IF c.st # "ok" THEN Stopped(c.st, data, h)
                                     ELSE [pc |-> "opened", error |-> "OK",
                                           data |-> data, pages |-> c.val, held |-> h,
                                           steps |-> OpenSteps]
                                     : c \in plist_page_count(objs, height)}
                           : r \in plist_page_ratio(objs)}
           : w \in plist_page_width(objs)}

\* note.c:445-510: the documents an open of file f can leave
note_document_open(f) ==
    CASE f.kind = "nodocument" -> {Failed("INVALID_ARGUMENTS", {}, 0)}
      [] f.kind = "unreadable" -> {Failed("INVALID_ARGUMENTS", {}, 1)}
      [] f.kind = "nofiles" -> {Failed("INVALID_ARGUMENTS", {"zip"}, 1)}
      [] f.kind \in {"nosession", "notbinary"} -> {Failed("INVALID_ARGUMENTS", {"zip"}, 2)}
      [] OTHER ->
         LET objs == plist_dict_get_item(f.session, "$objects")
         IN  IF ~ValidNodeTable(objs)
             THEN {Failed("NOT_IMPLEMENTED", {"zip", "session_plist"}, 3)}
             ELSE DeriveGeometry(objs, f.zip,
                                 {"zip", "root_name", "note_document", "session_plist"})

\* note.c:512-523: the zip closed and the root name freed when data is set
note_document_free(d) ==
    IF d.data = NULL THEN [d EXCEPT !.pc = "freed"]
    ELSE [d EXCEPT !.pc = "freed", !.held = d.held \ {"zip", "root_name"}]

(***************************************************************************)
(* The bounded .note files.                                                *)
(***************************************************************************)
\* the most floats of a point array
MaxFloats == 4

FloatVals == {-5, 650, 1500}

\* a dict of the pairs <<key, node>> whose node is present
DictOf(pairs) ==
    LET present == {q \in pairs : q[2] # NULL}
    IN  Dict([k \in {q[1] : q \in present} |-> (CHOOSE q \in present : q[1] = k)[2]])

PaperNodes ==
    {NULL, Real(13)} \cup
    {String(id) : id \in {"Legacy:13", "Legacy:0", "Legacy:1", "", "Legacy:130", "A4"}}

ClassNodes ==
    {NULL} \cup
    {String(c) : c \in {"NBReflowStateLocked", "NBReflowStateReflowable",
                        "NBReflowStateL", "NBReflowState", "NBOther"}}

WidthNodes == {NULL, Real(0), Real(1), Real(700), UInt(700)}

CurveNodes == {NULL, Real(3)} \cup {Data(c) : c \in SeqsUpTo(FloatVals, MaxFloats)}

\* the $objects array of a session with these four nodes, each at the place
\* the geometry looks for it, NULL for a node the file lacks
SessionObjects(paper, class, width, curves) ==
    Array(<<String("$null"),
            DictOf({<<"NBNoteTakingSessionDocumentPaperLayoutModelKey", Uid(3)>>}),
            DictOf({<<"reflowState", Uid(4)>>, <<"Handwriting Overlay", Uid(6)>>}),
            DictOf({<<"documentPaperAttributes",
                      DictOf({<<"paperIdentifier", paper>>})>>}),
            DictOf({<<"$class", Uid(5)>>, <<"pageWidthInDocumentCoordsKey", width>>}),
            DictOf({<<"$classname", class>>}),
            DictOf({<<"SpatialHash", DictOf({<<"curvespoints", curves>>})>>})>>)

\* a zip archive with no member beside the session
NoMembers == [m \in {} |-> FALSE]

Files ==
    {[kind |-> k] : k \in {"nodocument", "unreadable", "nofiles", "nosession", "notbinary"}}
    \cup {[kind |-> "note", zip |-> NoMembers, session |-> root] :
            root \in {DictOf({}), DictOf({<<"$objects", DictOf({})>>}),
                      DictOf({<<"$objects", Array(<<>>)>>})}}
    \cup {[kind |-> "note", zip |-> NoMembers,
           session |-> DictOf({<<"$objects", SessionObjects(paper, class, width, curves)>>})] :
            paper \in PaperNodes, class \in ClassNodes, width \in WidthNodes,
            curves \in CurveNodes}

(***************************************************************************)
(* SpecOpen: a file is opened as a document, which is then freed.          *)
(***************************************************************************)
InitOpen ==
    /\ file \in Files
    /\ doc = NoDocument
    /\ objects = NULL
    /\ args = <<>>
    /\ acc = IdleFrame
    /\ pages = <<>>
    /\ canvas = <<>>

NoteDocumentOpen ==
    /\ doc.pc = "closed"
    /\ doc' \in note_document_open(file)
    /\ UNCHANGED <<objects, args, acc, file, pages, canvas>>

NoteDocumentFree ==
    /\ doc.pc = "opened"
    /\ doc' = note_document_free(doc)
    /\ UNCHANGED <<objects, args, acc, file, pages, canvas>>

NextOpen == NoteDocumentOpen \/ NoteDocumentFree

SpecOpen == InitOpen /\ [][NextOpen]_vars

(***************************************************************************)
(* The nodes of a session that the geometry is derived from, found by      *)
(* following their paths by hand.                                          *)
(***************************************************************************)
NodeAt(objs, first, keys) ==
    Manual(objs, objs, <<IntArg(first)>> \o [k \in DOMAIN keys |-> StrArg(keys[k])])

InkNode(objs) ==
    NodeAt(objs, 2, <<"Handwriting Overlay", "SpatialHash", "curvespoints">>)
PaperNode(objs) ==
    NodeAt(objs, 1, <<"NBNoteTakingSessionDocumentPaperLayoutModelKey",
                      "documentPaperAttributes", "paperIdentifier">>)
ClassNode(objs) == NodeAt(objs, 2, <<"reflowState", "$class", "$classname">>)
WidthNode(objs) == NodeAt(objs, 2, <<"reflowState", "pageWidthInDocumentCoordsKey">>)

\* the y-coordinates of the (x, y) pairs of an ink point array
InkYs(node) ==
    IF node.type = "data" THEN {node.bytes[2 * k] : k \in 1..(Len(node.bytes) \div 2)}
    ELSE {}

\* the array holds whole (x, y) pairs, or there is none
WholePairs(node) == node.type = "data" => Len(node.bytes) % 2 = 0

SetMax(S) == CHOOSE m \in S : \A x \in S : x <= m

C7_RatioByIdentifier ==
    doc.pc = "opened"
    => doc.data.height =
         doc.data.width * (IF PaperNode(doc.data.objects) = String("Legacy:13")
                           THEN Legacy13Ratio ELSE DefaultRatio)

\* C8: the width of an opened document is at least 1; it is the stored
\* width only when the reflow-state class is "NBReflowStateLocked" and the
\* stored width resolves and is at least 1, and is 500 otherwise.
C8_WidthStoredOnlyWhenLocked ==
    LET class == ClassNode(doc.data.objects)
        width == WidthNode(doc.data.objects)
    IN  (doc.pc = "opened" /\ width.type \in {"none", "real"})
        => /\ doc.data.width >= 1
           /\ doc.data.width =
                IF class = String("NBReflowStateLocked") /\ width.type = "real"
                   /\ width.val >= 1
                THEN width.val ELSE DefaultWidth

(***************************************************************************)
(* Pages and what is drawn on them.  A page window and the y of a drawing  *)
(* command are in thousandths, as the page height is; the coordinates of   *)
(* the document's content are whole units.                                 *)
(***************************************************************************)
\* the data of a page before note_page_init and after note_page_clear
NoPage == [live |-> FALSE, start |-> 0, end |-> 0]

\* note.c:525-541: the window of the page with this index
note_page_init(d, number) ==
    [live |-> TRUE, start |-> d.data.height * number,
     end |-> d.data.height * (number + 1)]

\* note.c:543-548
note_page_clear(data) == NoPage

\* the calls made on the cairo context
cairo_move_to(x, y) == [op |-> "move_to", x |-> x, y |-> y]
cairo_line_to(x, y) == [op |-> "line_to", x |-> x, y |-> y]
cairo_stroke == [op |-> "stroke"]
cairo_set_source_rgba(color) == [op |-> "set_source_rgba", color |-> color]
cairo_set_source_rgb(r, g, b) == [op |-> "set_source_rgb", r |-> r, g |-> g, b |-> b]
cairo_set_line_width(w) == [op |-> "set_line_width", w |-> w]
\* cairo_set_source_surface and cairo_paint of the scaled image of object obj
cairo_paint(obj, x, y, w, h) ==
    [op |-> "paint", obj |-> obj, x |-> x, y |-> y, w |-> w, h |-> h]
\* pango_cairo_show_layout of a text of text store `store`
pango_cairo_show_layout(store, text, family, size) ==
    [op |-> "show_layout", store |-> store, text |-> text, family |-> family,
     size |-> size]

\* a renderer returned after these calls, or the process stopped after them
Drew(cmds) == [st |-> "ok", cmds |-> cmds]
Halt(how, cmds) == [st |-> how, cmds |-> cmds]

\* the outcomes of B with the calls of cmds before them
After(cmds, B) == {[st |-> b.st, cmds |-> cmds \o b.cmds] : b \in B}

\* a const char * of the caller, 0 before the call: the string node it
\* leads to after the call, NULL when nothing was written
StringPtr(fr, p) ==
    LET w == SlotWrite(fr, p)
    IN  IF w.kind \in {"string_ptr", "data_ptr"} THEN w.node ELSE NULL

\* the bytes such a pointer leads to
BytesOf(node) ==
    CASE node.type = "string" -> node.str
      [] node.type = "data" -> node.bytes
      [] OTHER -> ""

\* the values a char can hold after a write of another type over it
GarbageChars == {0, 1}

\* a char of the caller, init before the call
BoolSlot(fr, p, init) ==
    LET w == SlotWrite(fr, p)
    IN  CASE w.kind = "none" -> {init}
          [] w.kind = "bool" -> {w.node.val}
          [] OTHER -> GarbageChars

\* what a local that was never assigned can hold: no index of the table,
\* or the index of its first entry
Uninitialised == {NoPosition, 0}

\* plist_get_uid_val into a size_t that was not initialised: nothing is
\* written when the node is no UID
plist_get_uid_val(node) ==
    IF node.type = "uid" THEN {node.uid} ELSE Uninitialised

\* the byte at position k of a string (1-based); "" for the NUL that ends it
CharAt(s, k) == IF k \in 1..Len(s) THEN SubSeq(s, k, k) ELSE ""

\* the value of a decimal digit, NoPosition for another byte
DigitAt(s, k) ==
    IF \E v \in 0..9 : CharAt(s, k) = ToString(v)
    THEN CHOOSE v \in 0..9 : CharAt(s, k) = ToString(v)
    ELSE NoPosition

RECURSIVE SkipSpace(_, _)
SkipSpace(s, k) == IF CharAt(s, k) = " " THEN SkipSpace(s, k + 1) ELSE k

RECURSIVE Digits(_, _, _)
Digits(s, k, val) ==
    IF DigitAt(s, k) = NoPosition THEN [val |-> val, end |-> k]
    ELSE Digits(s, k + 1, val * 10 + DigitAt(s, k))

\* strtof(s + k - 1, &end) for the numerals of the model, which have a sign
\* and digits but no fraction: white space is skipped; without a digit the
\* value is 0 and end is where the parse began
strtof(s, k) ==
    LET b == SkipSpace(s, k)
        neg == CharAt(s, b) = "-"
        first == IF neg \/ CharAt(s, b) = "+" THEN b + 1 ELSE b
        n == Digits(s, first, 0)
    IN  IF n.end = first THEN [val |-> 0, end |-> k]
        ELSE [val |-> IF neg THEN 0 - n.val ELSE n.val, end |-> n.end]

\* note.c:286-291: the floats of "{a, b}"; strtof of the null pointer plus
\* one faults
plist_string_to_floats(string) ==
    IF string = NULL THEN [st |-> "crashed", a |-> 0, b |-> 0]
    ELSE LET a == strtof(BytesOf(string), 2)
             b == strtof(BytesOf(string), a.end + 2)
         IN  [st |-> "ok", a |-> a.val, b |-> b.val]

\* the string "{a, b}" of two numbers
FloatsString(a, b) == "{" \o ToString(a) \o ", " \o ToString(b) \o "}"

(***************************************************************************)
(* Text stores (note.c:616-797).                                           *)
(***************************************************************************)
\* note.c:616-626: start and end of the sub-range whose range string is at
\* table index range
note_page_render_text_range_extract_range(objs, range) ==
    {IF fr.pc # "done" THEN [st |-> fr.pc, start |-> 0, end |-> 0]
     ELSE LET fl == plist_string_to_floats(StringPtr(fr, 2))
          IN  [st |-> fl.st, start |-> fl.a, end |-> fl.a + fl.b]
     : fr \in plist_access(objs, <<IntArg(range), OutArg("string_ptr"), OutArg("len")>>)}

\* a font before any attribute of it is read
NoFont == [st |-> "ok", name |-> NULL, size |-> {0}]

\* note.c:636-664: the keys of the font from the k-th on; font_index counts
\* the keys that resolved
RECURSIVE FontKeys(_, _, _, _, _, _)
FontKeys(objs, font, keys, k, font_index, ft) ==
    IF k > Len(keys) THEN {ft}
    ELSE UNION {UNION {
           IF fk.pc # "done" THEN {[ft EXCEPT !.st = fk.pc]}
           ELSE IF StringPtr(fk, 2) = NULL
           THEN FontKeys(objs, font, keys, k + 1, font_index, ft)
           ELSE LET key == BytesOf(StringPtr(fk, 2))
                    key_length == LenSlot(fk, 3)
                IN  IF memcmp(key, "NSFontSizeAttribute", key_length) = 0
                    THEN UNION {IF fs.pc # "done" THEN {[ft EXCEPT !.st = fs.pc]}
                                ELSE FontKeys(objs, font, keys, k + 1, font_index + 1,
                                              [ft EXCEPT !.size =
                                                 UNION {RealSlot(fs, 4, v) : v \in ft.size}])
                                : fs \in plist_access(objs,
                                           <<IntArg(font), StrArg("NS.objects"),
                                             IntArg(font_index), OutArg("real")>>)}
                    ELSE IF memcmp(key, "NSFontNameAttribute", key_length) = 0
                    THEN UNION {IF fn.pc # "done" THEN {[ft EXCEPT !.st = fn.pc]}
                                ELSE FontKeys(objs, font, keys, k + 1, font_index + 1,
                                              [ft EXCEPT !.name =
                                                 IF StringPtr(fn, 4) = NULL THEN ft.name
                                                 ELSE StringPtr(fn, 4)])
                                : fn \in plist_access(objs,
                                           <<IntArg(font), StrArg("NS.objects"),
                                             IntArg(font_index), OutArg("string_ptr"),
                                             OutArg("len")>>)}
                    ELSE FontKeys(objs, font, keys, k + 1, font_index + 1, ft)
           : fk \in plist_access(objs, <<IntArg(key_index), OutArg("string_ptr"),
                                         OutArg("len")>>)}
         : key_index \in plist_get_uid_val(keys[k])}

\* note.c:628-667: name and size of the font at table index font
note_page_render_text_range_extract_font(objs, font) ==
    UNION {IF fr.pc # "done" THEN {[NoFont EXCEPT !.st = fr.pc]}
           ELSE FontKeys(objs, font,
                         IF fr.ret.type = "array" THEN fr.ret.items ELSE <<>>,
                         1, 0, NoFont)
           : fr \in plist_access(objs, <<IntArg(font), StrArg("NS.keys")>>)}

\* note.c:669-676: a component of the color at table index color; the
\* double is not initialised
ColorPart(objs, color, key) ==
    UNION {IF fr.pc # "done" THEN {} ELSE UNION {RealSlot(fr, 3, g) : g \in GarbageReals}
           : fr \in plist_access(objs, <<IntArg(color), StrArg(key), OutArg("real")>>)}

\* the ways a read of the color's components can stop the process
ColorStops(objs, color) ==
    {fr.pc : fr \in {f \in UNION {plist_access(objs, <<IntArg(color), StrArg(key),
                                                       OutArg("real")>>)
                                  : key \in {"UIRed", "UIGreen", "UIBlue", "UIAlpha"}}
                      : f.pc # "done"}}

\* the number of lines of a text: one more than its line feeds
LineFeed == 10
LineCount(text) == 1 + Len(SelectSeq(text, LAMBDA c : c = LineFeed))

\* the bytes start..end-1 of data that exist
TextOf(data, start, end) ==
    IF data = <<>> \/ start >= end THEN <<>>
    ELSE SubSeq(data, Max(start, 0) + 1, Min(end, Len(data)))

\* note.c:678-716: the sub-range drawn at (x, y); height is what it returns
note_page_render_text_sub_range(objs, page, store, data, loc, x, y) ==
    UNION {
      IF rg.st # "ok" THEN {[st |-> rg.st, cmds |-> <<>>, height |-> 0]}
      ELSE UNION {
        IF ft.st # "ok" THEN {[st |-> ft.st, cmds |-> <<>>, height |-> 0]}
        ELSE {[st |-> how, cmds |-> <<>>, height |-> 0] : how \in ColorStops(objs, loc.color)}
             \cup
             {[st |-> "ok",
               cmds |-> <<cairo_move_to(x, y * Thousand - page.start
                                           + (size \div 2) * Thousand),
                          cairo_set_source_rgb(r, g, b),
                          pango_cairo_show_layout(store, TextOf(data, rg.start, rg.end),
                                                  ft.name, size)>>,
               height |-> LineCount(TextOf(data, rg.start, rg.end)) * size]
              : size \in ft.size,
                r \in ColorPart(objs, loc.color, "UIRed"),
                g \in ColorPart(objs, loc.color, "UIGreen"),
                b \in ColorPart(objs, loc.color, "UIBlue")}
        : ft \in note_page_render_text_range_extract_font(objs, loc.font)}
      : rg \in note_page_render_text_range_extract_range(objs, loc.range)}

\* the locals range, font, other_attributes and color of the element loop
\* when nothing was assigned to them
UninitialisedLocals ==
    {[range |-> v, font |-> v, other_attributes |-> v, color |-> v] : v \in Uninitialised}

\* note.c:759-792: the keys of a sub-range from the k-th on; index counts
\* the keys that resolved, loc holds the locals
RECURSIVE SubRangeKeys(_, _, _, _, _, _)
SubRangeKeys(objs, elem_index, keys, k, index, loc) ==
    IF k > Len(keys) THEN {[st |-> "ok", loc |-> loc]}
    ELSE UNION {UNION {
           IF fk.pc # "done" THEN {[st |-> fk.pc, loc |-> loc]}
           ELSE IF StringPtr(fk, 2) = NULL
           THEN SubRangeKeys(objs, elem_index, keys, k + 1, index, loc)
           ELSE UNION {
                  IF fo.pc # "done" THEN {[st |-> fo.pc, loc |-> loc]}
                  ELSE LET key == BytesOf(StringPtr(fk, 2))
                           key_length == LenSlot(fk, 3)
                           object_index == fo.pos
                           is(lit) == memcmp(key, lit, key_length) = 0
                       IN  SubRangeKeys(objs, elem_index, keys, k + 1, index + 1,
                             IF is("subRangeColorCrossPlatformKey") THEN loc
                             ELSE IF is("subRangeRangeKey")
                             THEN [loc EXCEPT !.range = object_index]
                             ELSE IF is("subRangeFontKey")
                             THEN [loc EXCEPT !.font = object_index]
                             ELSE IF is("subRangeOtherAttributesKey")
                             THEN [loc EXCEPT !.other_attributes = object_index]
                             ELSE IF is("subRangeColorKey")
                             THEN [loc EXCEPT !.color = object_index]
                             ELSE loc)
                  : fo \in plist_access(objs, <<IntArg(elem_index), StrArg("NS.objects"),
                                                IntArg(index)>>)}
           : fk \in plist_access(objs, <<IntArg(key_index), OutArg("string_ptr"),
                                         OutArg("len")>>)}
         : key_index \in plist_get_uid_val(keys[k])}

\* the call of note_page_render_text_sub_range for the sub-range at table
\* index elem with the locals loc (note.c:794-795)
SubRangeCall(elem, loc) ==
    [op |-> "text_sub_range", elem |-> elem, range |-> loc.range, font |-> loc.font,
     color |-> loc.color]

\* note.c:741-796: the sub-ranges of a text store from the e-th on, drawn
\* from y down; prior is what the locals can hold when the body is entered
RECURSIVE TextElements(_, _, _, _, _, _, _, _, _)
TextElements(objs, page, store, data, array, e, x, y, prior) ==
    IF e > Len(array) THEN {Drew(<<>>)}
    ELSE UNION {UNION {
           IF fkeys.pc # "done" THEN {Halt(fkeys.pc, <<>>)}
           ELSE IF fkeys.ret.type # "array"
           THEN TextElements(objs, page, store, data, array, e + 1, x, y, prior)
           ELSE UNION {UNION {
                  IF r.st # "ok" THEN {Halt(r.st, <<>>)}
                  ELSE UNION {
                         IF sr.st # "ok"
                         THEN {Halt(sr.st, <<SubRangeCall(elem_index, r.loc)>> \o sr.cmds)}
                         ELSE After(<<SubRangeCall(elem_index, r.loc)>> \o sr.cmds,
                                    TextElements(objs, page, store, data, array, e + 1,
                                                 x, y + sr.height,
                                                 {r.loc} \cup UninitialisedLocals))
                         : sr \in note_page_render_text_sub_range(objs, page, store, data,
                                                                  r.loc, x, y)}
                  : r \in SubRangeKeys(objs, elem_index, fkeys.ret.items, 1, 0, init)}
                : init \in prior}
           : fkeys \in plist_access(objs, <<IntArg(elem_index), StrArg("NS.keys")>>)}
         : elem_index \in plist_get_uid_val(array[e])}

\* the path of note.c:727-735 to the item-th object of the backing string
BackingString(index, item, last) ==
    <<IntArg(index), StrArg("NBAttributedBackingString"),
      StrArg("NBAttributedBackingStringCodingKey"), StrArg("NS.objects"),
      IntArg(item), StrArg(last)>>

\* note.c:718-797: the text store at table index `index` drawn at (x, y)
note_page_render_text_store(objs, page, index, x, y) ==
    UNION {
      IF fd.pc # "done" THEN {Halt(fd.pc, <<>>)}
      ELSE IF FloatsSlot(fd, 7) = <<>> \/ LenSlot(fd, 8) = 0 THEN {Drew(<<>>)}
      ELSE UNION {
             IF fa.pc # "done" THEN {Halt(fa.pc, <<>>)}
             ELSE IF fa.ret.type # "array" THEN {Drew(<<>>)}
             ELSE TextElements(objs, page, index, FloatsSlot(fd, 7), fa.ret.items, 1,
                               x, y, UninitialisedLocals)
             : fa \in plist_access(objs, BackingString(index, 1, "NS.objects"))}
      : fd \in plist_access(objs, BackingString(index, 0, "NS.bytes")
                                    \o <<OutArg("data_ptr"), OutArg("len")>>)}

(***************************************************************************)
(* Media objects (note.c:550-614, 799-873).                                *)
(***************************************************************************)
\* note.c:562-572 and 805-815: origin and size of the object at table index
\* `index`
ObjectBox(objs, index) ==
    UNION {
      IF fp.pc # "done" THEN {[st |-> fp.pc, x |-> 0, y |-> 0, width |-> 0, height |-> 0]}
      ELSE LET origin == plist_string_to_floats(StringPtr(fp, 3))
           IN  IF origin.st # "ok"
               THEN {[st |-> origin.st, x |-> 0, y |-> 0, width |-> 0, height |-> 0]}
               ELSE {IF fs.pc # "done"
                     THEN [st |-> fs.pc, x |-> 0, y |-> 0, width |-> 0, height |-> 0]
                     ELSE LET size == plist_string_to_floats(StringPtr(fs, 3))
                          IN  [st |-> size.st, x |-> origin.a, y |-> origin.b,
                               width |-> size.a, height |-> size.b]
                     : fs \in plist_access(objs,
                                <<IntArg(index), StrArg("unscaledContentSize"),
                                  OutArg("string_ptr"), OutArg("len")>>)}
      : fp \in plist_access(objs, <<IntArg(index), StrArg("documentContentOrigin"),
                                    OutArg("string_ptr"), OutArg("len")>>)}

\* note.c:574 and 817: the object is left out of the page
OutsidePage(page, y, height) ==
    y * Thousand < page.start \/ (y + height) * Thousand > page.end

\* the path of note.c:557-558 to a field of the image's snapshot
Snapshot(index, field) ==
    <<IntArg(index), StrArg("figure"), StrArg("FigureBackgroundObjectKey"),
      StrArg("kImageObjectSnapshotKey"), StrArg(field)>>

\* note.c:34-59: the member of the zip is found and read
zip_load(zip, path) == path \in DOMAIN zip

\* note.c:577-611: the image of the object is loaded, decoded and painted
PaintImage(d, page, index, box) ==
    UNION {UNION {
        IF fp.pc # "done" THEN {Halt(fp.pc, <<>>)}
        ELSE IF fj.pc # "done" THEN {Halt(fj.pc, <<>>)}
        ELSE LET path == IF StringPtr(fp, 6) = NULL THEN "(null)"
                         ELSE BytesOf(StringPtr(fp, 6))
             IN  IF ~zip_load(d.data.zip, path) THEN {Drew(<<>>)}
                 ELSE IF ~d.data.zip[path] THEN {Drew(<<>>)}
                 ELSE {Drew(<<cairo_paint(index, box.x, box.y * Thousand - page.start,
                                          box.width, box.height)>>)}
        : fj \in plist_access(d.data.objects,
                              Snapshot(index, "saveAsJPEG") \o <<OutArg("bool")>>)}
      : fp \in plist_access(d.data.objects,
                            Snapshot(index, "relativePath")
                              \o <<OutArg("string_ptr"), OutArg("len")>>)}

\* note.c:550-614
note_page_render_image_object(d, page, index) ==
    UNION {
      IF fm.pc # "done" THEN {Halt(fm.pc, <<>>)}
      ELSE UNION {
             IF missing # 0 THEN {Drew(<<>>)}
             ELSE UNION {
                    IF box.st # "ok" THEN {Halt(box.st, <<>>)}
                    ELSE IF OutsidePage(page, box.y, box.height) THEN {Drew(<<>>)}
                    ELSE PaintImage(d, page, index, box)
                    : box \in ObjectBox(d.data.objects, index)}
             : missing \in BoolSlot(fm, 6, 0)}
      : fm \in plist_access(d.data.objects,
                            Snapshot(index, "imageIsMissing") \o <<OutArg("bool")>>)}

\* note.c:799-824
note_page_render_text_object(d, page, index) ==
    UNION {
      IF box.st # "ok" THEN {Halt(box.st, <<>>)}
      ELSE IF OutsidePage(page, box.y, box.height) THEN {Drew(<<>>)}
      ELSE UNION {
             IF text_store.pc # "done" THEN {Halt(text_store.pc, <<>>)}
             ELSE note_page_render_text_store(d.data.objects, page, text_store.pos,
                                              box.x, box.y)
             : text_store \in plist_access(d.data.objects,
                                           <<IntArg(index), StrArg("textStore")>>)}
      : box \in ObjectBox(d.data.objects, index)}

\* note.c:826-844
note_page_render_object(d, page, index) ==
    UNION {
      IF fc.pc # "done" THEN {Halt(fc.pc, <<>>)}
      ELSE LET class == BytesOf(StringPtr(fc, 4))
               class_length == LenSlot(fc, 5)
           IN  IF memcmp(class, "ImageMediaObject", class_length) = 0
               THEN note_page_render_image_object(d, page, index)
               ELSE IF memcmp(class, "TextBlockMediaObject", class_length) = 0
               THEN note_page_render_text_object(d, page, index)
               ELSE {Drew(<<>>)}
      : fc \in plist_access(d.data.objects,
                            <<IntArg(index), StrArg("$class"), StrArg("$classname"),
                              OutArg("string_ptr"), OutArg("len")>>)}

\* note.c:863-872: the media objects from the k-th item of the list on
RECURSIVE MediaObjects(_, _, _, _)
MediaObjects(d, page, items, k) ==
    IF k > Len(items) THEN {Drew(<<>>)}
    ELSE UNION {UNION {
           IF o.st # "ok" THEN {o}
           ELSE After(o.cmds, MediaObjects(d, page, items, k + 1))
           : o \in note_page_render_object(d, page, index)}
         : index \in plist_get_uid_val(items[k])}

\* note.c:847-873
note_page_render_objects(d, page) ==
    UNION {
      IF g.st # "ok" THEN {g}
      ELSE UNION {
             IF objects_array.pc # "done" THEN {Halt(objects_array.pc, g.cmds)}
             ELSE After(g.cmds,
                        MediaObjects(d, page,
                                     IF objects_array.ret.type = "array"
                                     THEN objects_array.ret.items ELSE <<>>, 1))
             : objects_array \in
                 plist_access(d.data.objects,
                              <<IntArg(SESSION_OBJECTS_GLOBAL_TEXT_STORE),
                                StrArg("mediaObjects"), StrArg("NS.objects")>>)}
      : g \in note_page_render_text_store(d.data.objects, page,
                                          SESSION_OBJECTS_GLOBAL_TEXT_STORE, 0, 0)}

(***************************************************************************)
(* Strokes (note.c:875-944).                                               *)
(***************************************************************************)
\* note.c:273-284: the overlay dict, NULL when the path leads to none
plist_handwriting_overlay(objs) ==
    {IF fr.pc # "done" THEN [st |-> fr.pc, node |-> NULL]
     ELSE [st |-> "ok", node |-> IF fr.ret.type = "dict" THEN fr.ret ELSE NULL]
     : fr \in plist_access(objs, <<IntArg(SESSION_OBJECTS_GLOBAL_TEXT_STORE),
                                   StrArg("Handwriting Overlay"), StrArg("SpatialHash")>>)}

\* plist_dict_get_data: the elements of the data stored under key, none
\* when there is no such data
plist_dict_get_data(overlay, key) ==
    LET node == plist_dict_get_item(overlay, key)
    IN  IF node.type = "data" THEN node.bytes ELSE <<>>

\* array[k] (0-based); oob is what a read past the end finds
At(array, k, oob) == IF k < Len(array) THEN array[k + 1] ELSE oob

\* note.c:931 and 936: the page draws a point of this y
InPage(page, y) == y * Thousand >= page.start /\ y * Thousand <= page.end

\* note.c:935-937: the points j, j + 2, ... before stop
RECURSIVE StrokeLines(_, _, _, _, _)
StrokeLines(curves, j, stop, page, oob) ==
    IF ~(j < stop) THEN <<>>
    ELSE (IF InPage(page, At(curves, j + 1, oob))
          THEN <<cairo_line_to(At(curves, j, oob),
                               At(curves, j + 1, oob) * Thousand - page.start)>>
          ELSE <<>>)
         \o StrokeLines(curves, j + 2, stop, page, oob)

\* note.c:920-941: the strokes from the i-th on, the first at index pos
RECURSIVE Strokes(_, _, _, _, _, _, _, _)
Strokes(curves, curves_num, curves_width, curves_colors, i, pos, page, oob) ==
    IF ~(i < Len(curves_num)) THEN <<>>
    ELSE LET length == curves_num[i + 1]
         IN  <<cairo_set_source_rgba([c \in 0..3 |-> At(curves_colors, i * 4 + c, oob)]),
               cairo_set_line_width(At(curves_width, i, oob))>>
             \o (IF InPage(page, At(curves, pos + 1, oob))
                 THEN <<cairo_move_to(At(curves, pos, oob),
                                      At(curves, pos + 1, oob) * Thousand - page.start)>>
                 ELSE <<>>)
             \o StrokeLines(curves, pos, pos + length * 2, page, oob)
             \o <<cairo_stroke>>
             \o Strokes(curves, curves_num, curves_width, curves_colors, i + 1,
                        pos + length * 2, page, oob)

\* the elements of the arrays that note.c:936-937 reads for the points j,
\* j + 2, ... before stop: the array and the index (0-based) of each
RECURSIVE LineReads(_, _, _, _, _)
LineReads(curves, j, stop, page, oob) ==
    IF ~(j < stop) THEN {}
    ELSE {<<"curvespoints", j + 1>>}
         \cup (IF InPage(page, At(curves, j + 1, oob)) THEN {<<"curvespoints", j>>} ELSE {})
         \cup LineReads(curves, j + 2, stop, page, oob)

\* the elements that note.c:920-941 reads for the strokes from the i-th on
RECURSIVE StrokeReads(_, _, _, _, _, _)
StrokeReads(curves, curves_num, i, pos, page, oob) ==
    IF ~(i < Len(curves_num)) THEN {}
    ELSE LET length == curves_num[i + 1]
         IN  {<<"curvesnumpoints", i>>, <<"curveswidth", i>>}
             \cup {<<"curvescolors", i * 4 + c>> : c \in 0..3}
             \cup {<<"curvespoints", pos + 1>>}
             \cup (IF InPage(page, At(curves, pos + 1, oob))
                   THEN {<<"curvespoints", pos>>} ELSE {})
             \cup LineReads(curves, pos, pos + length * 2, page, oob)
             \cup StrokeReads(curves, curves_num, i + 1, pos + length * 2, page, oob)

\* a page on which nothing was rendered yet
Blank == [error |-> "NONE", st |-> "ok", cmds |-> <<>>, reads |-> {}]

\* note.c:888-943: the strokes of the overlay drawn after cmds
RenderStrokes(d, page, cmds) ==
    UNION {
      IF ov.st # "ok" THEN {[error |-> "NONE", st |-> ov.st, cmds |-> cmds, reads |-> {}]}
      ELSE IF ov.node = NULL THEN {[error |-> "OK", st |-> "ok", cmds |-> cmds, reads |-> {}]}
      ELSE LET curves == plist_dict_get_data(ov.node, "curvespoints")
               curves_num == plist_dict_get_data(ov.node, "curvesnumpoints")
               curves_width == plist_dict_get_data(ov.node, "curveswidth")
               curves_colors == plist_dict_get_data(ov.node, "curvescolors")
           IN  IF curves = <<>> \/ curves_num = <<>> \/ curves_colors = <<>>
                  \/ curves_width = <<>>
               THEN {[error |-> "OK", st |-> "ok", cmds |-> cmds, reads |-> {}]}
               ELSE {[error |-> "OK", st |-> "ok",
                      cmds |-> cmds \o Strokes(curves, curves_num, curves_width,
                                               curves_colors, 0, 0, page, oob),
                      reads |-> StrokeReads(curves, curves_num, 0, 0, page, oob)]
                     : oob \in OobFloats}
      : ov \in plist_handwriting_overlay(d.data.objects)}

\* note.c:875-944: what a render of the page can draw and return
note_page_render_cairo(d, page, printing) ==
    IF printing THEN {[error |-> "NOT_IMPLEMENTED", st |-> "ok", cmds |-> <<>>, reads |-> {}]}
    ELSE UNION {IF o.st # "ok" THEN {[error |-> "NONE", st |-> o.st, cmds |-> o.cmds, reads |-> {}]}
                ELSE RenderStrokes(d, page, o.cmds)
                : o \in note_page_render_objects(d, page)}

(***************************************************************************)
(* The bounded .note files that are rendered.  A page is 500 wide and 650  *)
(* high: the session names no paper and no reflow state.                   *)
(***************************************************************************)
\* the most points of the ink, and the most strokes they are split into
MaxPoints == 3
MaxStrokes == 2

\* y-coordinates: above the canvas, on page 0, on the boundary of pages 0
\* and 1, on page 1
YVals == {0 - 5, 100, 650, 700}

RECURSIVE Sum(_)
Sum(q) == IF q = <<>> THEN 0 ELSE Head(q) + Sum(Tail(q))

\* the point array of these y-coordinates; the k-th point has x = k
CurvesOf(ys) == [j \in 1..(2 * Len(ys)) |-> IF j % 2 = 1 THEN (j + 1) \div 2 ELSE ys[j \div 2]]

\* the SpatialHash dict of the strokes with these point counts
InkOf(ys, counts) ==
    DictOf({<<"curvespoints", Data(CurvesOf(ys))>>,
            <<"curvesnumpoints", Data(counts)>>,
            <<"curveswidth", Data([k \in 1..Len(counts) |-> 2])>>,
            <<"curvescolors", Data([k \in 1..(4 * Len(counts)) |-> 255])>>})

Inks ==
    {NULL, DictOf({<<"curvespoints", Data(CurvesOf(<<100>>))>>,
                   <<"curvesnumpoints", Data(<<1>>)>>})}
    \cup {InkOf(ys, counts) :
            ys \in SeqsUpTo(YVals, MaxPoints) \ {<<>>},
            counts \in SeqsUpTo(0..MaxPoints, MaxStrokes)}

\* the files of the model keep the counts and the points in step
InkInStep(ink) ==
    ink.type = "dict" /\ "curveswidth" \in DOMAIN ink.map
    => Sum(ink.map["curvesnumpoints"].bytes) * 2 = Len(ink.map["curvespoints"].bytes)

\* the lists of a text store: the keys and values of its first sub-range,
\* of its second sub-range (no keys: there is none), and of the font of
\* the first.  The key strings are at the table indices 11..14 (range,
\* font, other attributes, color), 19 and 20 (font size, font name), 25 and
\* 26 (two keys the renderer does not know); the values of the first
\* sub-range at 15..18, those of the second at 22 (range), 23 (font), 17
\* and 24 (color).
Text(keysA, objsA, keysB, objsB, fontKeys, fontObjs) ==
    [keysA |-> keysA, objsA |-> objsA, keysB |-> keysB, objsB |-> objsB,
     fontKeys |-> fontKeys, fontObjs |-> fontObjs]

Uids(q) == [k \in DOMAIN q |-> Uid(q[k])]

\* one sub-range with its four keys, a font with its two
PlainText ==
    Text(<<11, 12, 13, 14>>, <<15, 16, 17, 18>>, <<>>, <<>>,
         <<19, 20>>, <<Real(12), String("Sans")>>)

\* the table entries every rendered file has: the session's fixed entries
\* and one text store of the text "hi"
FixedEntries(ink, media, text) ==
    <<String("$null"),
      DictOf({}),
      DictOf({<<"Handwriting Overlay", Uid(3)>>, <<"mediaObjects", Uid(4)>>}),
      DictOf({<<"SpatialHash", ink>>}),
      DictOf({<<"NS.objects", media>>}),
      DictOf({<<"NBAttributedBackingString", Uid(6)>>}),
      DictOf({<<"NBAttributedBackingStringCodingKey", Uid(7)>>}),
      DictOf({<<"NS.objects", Array(<<Uid(8), Uid(9)>>)>>}),
      DictOf({<<"NS.bytes", Data(<<104, 105>>)>>}),
      DictOf({<<"NS.objects",
                Array(IF text.keysB = <<>> THEN <<Uid(10)>> ELSE <<Uid(10), Uid(21)>>)>>}),
      DictOf({<<"NS.keys", Array(Uids(text.keysA))>>,
              <<"NS.objects", Array(Uids(text.objsA))>>}),
      String("subRangeRangeKey"),
      String("subRangeFontKey"),
      String("subRangeOtherAttributesKey"),
      String("subRangeColorKey"),
      String(FloatsString(0, 2)),
      DictOf({<<"NS.keys", Array(Uids(text.fontKeys))>>,
              <<"NS.objects", Array(text.fontObjs)>>}),
      DictOf({}),
      DictOf({<<"UIRed", Real(0)>>, <<"UIGreen", Real(0)>>, <<"UIBlue", Real(0)>>,
              <<"UIAlpha", Real(1)>>}),
      String("NSFontSizeAttribute"),
      String("NSFontNameAttribute"),
      DictOf({<<"NS.keys", Array(Uids(text.keysB))>>,
              <<"NS.objects", Array(Uids(text.objsB))>>}),
      String(FloatsString(1, 1)),
      DictOf({<<"NS.keys", Array(<<Uid(19), Uid(20)>>)>>,
              <<"NS.objects", Array(<<Real(20), String("Serif")>>)>>}),
      DictOf({<<"UIRed", Real(1)>>, <<"UIGreen", Real(1)>>, <<"UIBlue", Real(1)>>,
              <<"UIAlpha", Real(1)>>}),
      String("subRangeUnknownKey"),
      String("NSFontUnknownAttribute")>>

\* the table index of the text store of FixedEntries
TextStoreIndex == SESSION_OBJECTS_GLOBAL_TEXT_STORE + 3

\* the dict of a media object; its class dict is at table index class_index
MediaDict(m, class_index) ==
    DictOf({<<"$class", Uid(class_index)>>,
            <<"documentContentOrigin", m.origin>>,
            <<"unscaledContentSize", m.size>>,
            <<"figure",
              DictOf({<<"FigureBackgroundObjectKey",
                        DictOf({<<"kImageObjectSnapshotKey",
                                  DictOf({<<"imageIsMissing", m.missing>>,
                                          <<"relativePath", m.path>>,
                                          <<"saveAsJPEG", Bool(0)>>})>>})>>})>>,
            <<"textStore", Uid(TextStoreIndex)>>})

\* the $objects array of a session with this ink and these media objects
RenderObjects(ink, media, text) ==
    LET first == Len(FixedEntries(NULL, NULL, PlainText))
        M == Len(media)
    IN  Array(FixedEntries(ink, Array([k \in 1..M |-> Uid(first + k - 1)]), text)
              \o [k \in 1..M |-> MediaDict(media[k], first + M + k - 1)]
              \o [k \in 1..M |-> DictOf({<<"$classname", media[k].class>>})])

\* a media object of a class at (x, y) with a size
Media(class, x, y, w, h, missing, path) ==
    [class |-> class, origin |-> String(FloatsString(x, y)),
     size |-> String(FloatsString(w, h)), missing |-> Bool(missing),
     path |-> String(path)]

MediaClasses ==
    {NULL} \cup {String(c) : c \in {"ImageMediaObject", "TextBlockMediaObject",
                                    "Image", "ShapeMediaObject"}}

\* the k-th object of a list has x = 10 * k; origins below the middle of
\* page 0 and on its lower boundary, heights that keep the object on the
\* page, cross the boundary, are zero or are negative
MediaAt(k) ==
    {Media(class, 10 * k, y, 20, h, 0, "a.png") :
        class \in MediaClasses, y \in {600, 650}, h \in {0 - 10, 0, 50, 100}}
    \cup {Media(String("ImageMediaObject"), 10 * k, 600, 20, 50, 1, "a.png"),
          Media(String("ImageMediaObject"), 10 * k, 600, 20, 50, 0, "junk.png"),
          Media(String("ImageMediaObject"), 10 * k, 600, 20, 50, 0, "gone.png"),
          [Media(String("ImageMediaObject"), 10 * k, 600, 20, 50, 0, "a.png")
             EXCEPT !.path = NULL],
          [Media(String("TextBlockMediaObject"), 10 * k, 600, 20, 50, 0, "a.png")
             EXCEPT !.origin = NULL]}

\* the second object of a list of two
SecondMedia ==
    {m \in MediaAt(2) : /\ m.class \in {String("ImageMediaObject"),
                                        String("TextBlockMediaObject")}
                        /\ m.origin = String(FloatsString(20, 650))
                        /\ m.size \in {String(FloatsString(20, 0)),
                                       String(FloatsString(20, 50))}
                        /\ m.path = String("a.png")}

MediaLists ==
    {<<m>> : m \in MediaAt(1)} \cup {<<m, n>> : m \in MediaAt(1), n \in SecondMedia}

\* the members of the zip beside the session: whether each decodes
Members == [m \in {"a.png", "junk.png"} |-> m = "a.png"]

\* a table index that no table of the model has: the tables hold the fixed
\* entries and fewer than that again for their media objects
NoIndex == 2 * Len(FixedEntries(NULL, NULL, PlainText))

\* text stores: key lists that begin with a key the renderer does not
\* know or with a key that does not resolve, for the sub-range and for
\* the font; a sub-range without a range, a font or a color key, alone and
\* after a full sub-range; two full sub-ranges
Texts ==
    {Text(<<first>> \o PlainText.keysA, <<17>> \o PlainText.objsA, <<>>, <<>>,
          PlainText.fontKeys, PlainText.fontObjs) : first \in {25, NoIndex}}
    \cup {Text(PlainText.keysA, PlainText.objsA, <<>>, <<>>,
               <<first>> \o PlainText.fontKeys, <<Real(30)>> \o PlainText.fontObjs)
            : first \in {26, NoIndex}}
    \cup {Text(keys, [k \in DOMAIN keys |-> keys[k] + 4], <<>>, <<>>,
               PlainText.fontKeys, PlainText.fontObjs)
            : keys \in {<<12, 13, 14>>, <<11, 13, 14>>, <<11, 12, 13>>}}
    \cup {Text(PlainText.keysA, PlainText.objsA, keysB,
               [k \in DOMAIN keysB |->
                  CASE keysB[k] = 11 -> 22 [] keysB[k] = 12 -> 23
                    [] keysB[k] = 13 -> 17 [] OTHER -> 24],
               PlainText.fontKeys, PlainText.fontObjs)
            : keysB \in {<<11, 12, 13, 14>>, <<12, 13, 14>>, <<11, 13, 14>>, <<11, 12, 13>>}}

RenderFiles ==
    {[kind |-> "note", zip |-> Members,
      session |-> DictOf({<<"$objects", RenderObjects(ink, <<>>, PlainText)>>})] :
        ink \in {i \in Inks : InkInStep(i)}}
    \cup {[kind |-> "note", zip |-> Members,
           session |-> DictOf({<<"$objects",
                                 RenderObjects(InkOf(<<700>>, <<1>>), media,
                                               PlainText)>>})] :
            media \in MediaLists}
    \cup {[kind |-> "note", zip |-> Members,
           session |-> DictOf({<<"$objects",
                                 RenderObjects(InkOf(<<700>>, <<1>>), media, text)>>})] :
            media \in {<<Media(String("TextBlockMediaObject"), 10, y, 20, 50, 0, "a.png")>>
                         : y \in {100, 700}},
            text \in Texts}

(***************************************************************************)
(* SpecRender: the pages of an opened document are initialised, rendered   *)
(* and cleared in any order.                                               *)
(***************************************************************************)
InitRender ==
    /\ file \in RenderFiles
    /\ doc \in {d \in note_document_open(file) : d.pc = "opened"}
    /\ pages = [n \in 0..(doc.pages - 1) |-> NoPage]
    /\ canvas = [n \in 0..(doc.pages - 1) |-> Blank]
    /\ objects = NULL
    /\ args = <<>>
    /\ acc = IdleFrame

NotePageInit(n) ==
    /\ doc.pc = "opened"
    /\ ~pages[n].live
    /\ pages' = [pages EXCEPT ![n] = note_page_init(doc, n)]
    /\ UNCHANGED <<objects, args, acc, file, doc, canvas>>

NotePageClear(n) ==
    /\ doc.pc = "opened"
    /\ pages[n].live
    /\ pages' = [pages EXCEPT ![n] = note_page_clear(pages[n])]
    /\ UNCHANGED <<objects, args, acc, file, doc, canvas>>

NotePageRenderCairo(n) ==
    /\ doc.pc = "opened"
    /\ pages[n].live
    /\ \E printing \in BOOLEAN :
         \E out \in note_page_render_cairo(doc, pages[n], printing) :
            /\ canvas' = [canvas EXCEPT ![n] = out]
            /\ doc' = IF out.st = "ok" THEN doc ELSE [doc EXCEPT !.pc = out.st]
    /\ UNCHANGED <<objects, args, acc, file, pages>>

NextRender ==
    \E n \in DOMAIN pages :
       NotePageInit(n) \/ NotePageClear(n) \/ NotePageRenderCairo(n)

SpecRender == InitRender /\ [][NextRender]_vars

(***************************************************************************)
(* What the pages show, read off the calls made on their cairo contexts.   *)
(***************************************************************************)
\* the start of the window of page n, in thousandths
PageStart(n) == doc.data.height * n

\* every page of the document has been rendered and the render returned OK
AllRendered ==
    /\ doc.pc = "opened"
    /\ \A n \in DOMAIN canvas : canvas[n].error = "OK" /\ canvas[n].st = "ok"

\* the points of the document that page n has a move_to or line_to for
PointsDrawn(n) ==
    LET cmds == canvas[n].cmds
    IN  {<<cmds[k].x, cmds[k].y + PageStart(n)>> :
           k \in {j \in DOMAIN cmds : cmds[j].op \in {"move_to", "line_to"}}}

\* the segments a sequence of calls strokes, from the k-th call on: a
\* line_to draws from the current point cur, and sets it when there is none
RECURSIVE Segments(_, _, _, _)
Segments(cmds, k, cur, start) ==
    IF k > Len(cmds) THEN {}
    ELSE LET c == cmds[k]
             p == <<c.x, c.y + start>>
         IN  CASE c.op = "move_to" -> Segments(cmds, k + 1, <<p>>, start)
               [] c.op = "line_to" ->
                    {<<cur[1], p>> : j \in DOMAIN cur} \cup Segments(cmds, k + 1, <<p>>, start)
               [] c.op = "stroke" -> Segments(cmds, k + 1, <<>>, start)
               [] OTHER -> Segments(cmds, k + 1, cur, start)

\* the ink of the document: its points, in thousandths, and its strokes
InkDict(objs) == NodeAt(objs, SESSION_OBJECTS_GLOBAL_TEXT_STORE,
                        <<"Handwriting Overlay", "SpatialHash">>)
InkArray(objs, key) ==
    LET node == plist_dict_get_item(InkDict(objs), key)
    IN  IF node.type = "data" THEN node.bytes ELSE <<>>
InkPoint(objs, k) ==
    <<InkArray(objs, "curvespoints")[2 * k - 1],
      InkArray(objs, "curvespoints")[2 * k] * Thousand>>
InkPoints(objs) ==
    {InkPoint(objs, k) : k \in 1..(Len(InkArray(objs, "curvespoints")) \div 2)}

\* the four arrays are there, every stroke has a point, and the counts add
\* up to the points
StrokeSetValid(objs) ==
    LET counts == InkArray(objs, "curvesnumpoints")
    IN  /\ counts # <<>>
        /\ \A k \in DOMAIN counts : counts[k] >= 1
        /\ Sum(counts) * 2 = Len(InkArray(objs, "curvespoints"))
        /\ Len(InkArray(objs, "curveswidth")) = Len(counts)
        /\ Len(InkArray(objs, "curvescolors")) = 4 * Len(counts)

\* the pairs of points that follow one another in a stroke, and the pairs
\* of a point with itself
RECURSIVE ConsecutivePairs(_, _, _)
ConsecutivePairs(objs, counts, first) ==
    IF counts = <<>> THEN {}
    ELSE {<<InkPoint(objs, k), InkPoint(objs, k)>> : k \in first..(first + Head(counts) - 1)}
         \cup {<<InkPoint(objs, k), InkPoint(objs, k + 1)>> :
                 k \in first..(first + Head(counts) - 2)}
         \cup ConsecutivePairs(objs, Tail(counts), first + Head(counts))

\* the page whose half-open window [start, end) holds y (in thousandths)
PageOf(y) == y \div doc.data.height

\* C5: with all pages rendered, every ink point on or below the top of the
\* canvas is drawn on exactly one page, a point on a page boundary too.
C5_PointOnOnePage ==
    (AllRendered /\ StrokeSetValid(doc.data.objects))
    => \A p \in InkPoints(doc.data.objects) :
          p[2] >= 0 => Cardinality({n \in DOMAIN canvas : p \in PointsDrawn(n)}) = 1

\* the media objects of the document: table index, origin and size
MediaIndexes(objs) ==
    LET list == NodeAt(objs, SESSION_OBJECTS_GLOBAL_TEXT_STORE,
                       <<"mediaObjects", "NS.objects">>)
    IN  IF list.type = "array"
        THEN {list.items[k].uid : k \in {j \in DOMAIN list.items : list.items[j].type = "uid"}}
        ELSE {}
Origin(objs, index) ==
    plist_string_to_floats(NodeAt(objs, index, <<"documentContentOrigin">>))
Size(objs, index) ==
    plist_string_to_floats(NodeAt(objs, index, <<"unscaledContentSize">>))

\* page n has the image of the object painted, or a text laid out at the
\* object's x
ObjectDrawn(n, index) ==
    LET cmds == canvas[n].cmds
    IN  \E k \in DOMAIN cmds :
           \/ cmds[k].op = "paint" /\ cmds[k].obj = index
           \/ /\ cmds[k].op = "show_layout"
              /\ k > 2
              /\ cmds[k - 2].op = "move_to"
              /\ cmds[k - 2].x = Origin(doc.data.objects, index).a

\* C9: an object with an origin and a size of height 0 or more is drawn on
\* page n only if its whole vertical extent is inside the window of page
\* n, and on no more than one page, an object of height 0 on a page
\* boundary too.
C9_ObjectOnOnePage ==
    doc.pc = "opened"
    => \A index \in MediaIndexes(doc.data.objects) :
          LET y == Origin(doc.data.objects, index).b * Thousand
              h == Size(doc.data.objects, index).b * Thousand
          IN  (/\ Origin(doc.data.objects, index).st = "ok"
               /\ Size(doc.data.objects, index).st = "ok"
               /\ h >= 0)
              => /\ \A n \in DOMAIN canvas :
                       ObjectDrawn(n, index)
                       => /\ Min(y, y + h) >= PageStart(n)
                          /\ Max(y, y + h) <= PageStart(n + 1)
                 /\ Cardinality({n \in DOMAIN canvas : ObjectDrawn(n, index)}) <= 1

\* the segments of the strokes rendered once on a single window that
\* covers every page
SingleWindow(objs) ==
    Segments(Strokes(InkArray(objs, "curvespoints"), InkArray(objs, "curvesnumpoints"),
                     InkArray(objs, "curveswidth"), InkArray(objs, "curvescolors"),
                     0, 0, [live |-> TRUE, start |-> 0, end |-> PageStart(doc.pages)], 0),
             1, <<>>, 0)

\* the segments the pages show
PerPage == UNION {Segments(canvas[n].cmds, 1, <<>>, PageStart(n)) : n \in DOMAIN canvas}

\* C10: the pages rendered one by one show the segments a single window
\* shows, but for those whose ends are on two pages; no point is drawn on
\* two pages and every segment joins two points that follow one another
\* in a stroke.
C10_PagesShowSingleWindow ==
    (AllRendered /\ StrokeSetValid(doc.data.objects))
    => /\ PerPage \subseteq SingleWindow(doc.data.objects)
       /\ \A sg \in SingleWindow(doc.data.objects) :
             PageOf(sg[1][2]) = PageOf(sg[2][2]) => sg \in PerPage
       /\ \A p \in InkPoints(doc.data.objects) :
             Cardinality({n \in DOMAIN canvas : p \in PointsDrawn(n)}) <= 1
       /\ PerPage \subseteq ConsecutivePairs(doc.data.objects,
                                             InkArray(doc.data.objects, "curvesnumpoints"), 1)

\* the class name node of the media object at a table index
ClassNameOf(objs, index) == NodeAt(objs, index, <<"$class", "$classname">>)

\* C11: a media object whose class name is neither "ImageMediaObject" nor
\* "TextBlockMediaObject" (none, empty or a prefix of these too) has
\* nothing drawn for it on any page.
C11_UnknownClassDrawsNothing ==
    doc.pc = "opened"
    => \A index \in MediaIndexes(doc.data.objects) :
          ClassNameOf(doc.data.objects, index)
              \notin {String("ImageMediaObject"), String("TextBlockMediaObject")}
          => \A n \in DOMAIN canvas : ~ObjectDrawn(n, index)

\* the file is one that open must refuse: no container that opens, no
\* binary session in it, or no $objects array in the session
Refused(f) ==
    \/ f.kind \in {"nodocument", "unreadable", "nofiles", "nosession", "notbinary"}
    \/ plist_dict_get_item(f.session, "$objects").type # "array"

ListOf(objs, index, key) ==
    LET list == NodeAt(objs, index, <<key>>)
    IN  IF list.type = "array" THEN list.items ELSE <<>>

\* the positions of the key list of the node at `index` that hold the key
\* name
KeyPositions(objs, index, name) ==
    {i \in DOMAIN ListOf(objs, index, "NS.keys") :
        Deref(objs, ListOf(objs, index, "NS.keys")[i]) = String(name)}

\* the values at the positions of the key name, those that exist
ValuesOf(objs, index, name) ==
    {ListOf(objs, index, "NS.objects")[i] :
        i \in KeyPositions(objs, index, name) \cap DOMAIN ListOf(objs, index, "NS.objects")}

\* the calls of note_page_render_text_sub_range made for page n
SubRangeCalls(n) ==
    {k \in DOMAIN canvas[n].cmds : canvas[n].cmds[k].op = "text_sub_range"}

\* the key list of the sub-range or of its font has a key before its last
\* that is no string of the table
HasUnresolvedKey(objs, index) ==
    \E i \in DOMAIN ListOf(objs, index, "NS.keys") :
       /\ i < Len(ListOf(objs, index, "NS.keys"))
       /\ Deref(objs, ListOf(objs, index, "NS.keys")[i]).type # "string"

\* C13: the range, font and color a sub-range is drawn with are the values
\* at the positions of subRangeRangeKey, subRangeFontKey and
\* subRangeColorKey in its key list, and the font size laid out is the
\* value at the position of NSFontSizeAttribute in the font's key list,
\* whatever keys come before them.
C13_KeysPairedByPosition ==
    \A n \in DOMAIN canvas :
       \A k \in SubRangeCalls(n) :
          LET objs == doc.data.objects
              cmds == canvas[n].cmds
              call == cmds[k]
          IN  /\ \A v \in ValuesOf(objs, call.elem, "subRangeRangeKey") :
                    call.range = v.uid
              /\ \A v \in ValuesOf(objs, call.elem, "subRangeFontKey") :
                    /\ call.font = v.uid
                    /\ k + 3 \in DOMAIN cmds /\ cmds[k + 3].op = "show_layout"
                       => \A size \in ValuesOf(objs, v.uid, "NSFontSizeAttribute") :
                             size.type = "real" => cmds[k + 3].size = size.val
              /\ \A v \in ValuesOf(objs, call.elem, "subRangeColorKey") :
                    call.color = v.uid


(***************************************************************************)
(* Reads of the stroke arrays.                                             *)
(***************************************************************************)
\* the counts (zeros too) add up to the points, and there is a width and
\* four color bytes for each
StrokeSetInStep(objs) ==
    LET counts == InkArray(objs, "curvesnumpoints")
    IN  /\ counts # <<>>
        /\ Sum(counts) * 2 = Len(InkArray(objs, "curvespoints"))
        /\ Len(InkArray(objs, "curveswidth")) = Len(counts)
        /\ Len(InkArray(objs, "curvescolors")) = 4 * Len(counts)

\* C14: with counts that add up to the points and a width and a color for
\* each count, every element the stroke loop reads lies inside its array.
C14_StrokeReadsInsideArrays ==
    doc.data # NULL /\ StrokeSetInStep(doc.data.objects)
    => \A n \in DOMAIN canvas :
          \A read \in canvas[n].reads :
             read[2] < Len(InkArray(doc.data.objects, read[1]))


(***************************************************************************)
(* References a sub-range is drawn with.                                   *)
(***************************************************************************)
\* the table indices of the values of the sub-range at `index`
OwnReferences(objs, index) ==
    {ListOf(objs, index, "NS.objects")[i].uid :
        i \in {j \in DOMAIN ListOf(objs, index, "NS.objects") :
                 ListOf(objs, index, "NS.objects")[j].type = "uid"}}

\* the call at k of page n passes `passed` for the key name: one of the
\* sub-range's own values, and when the sub-range has no such key neither
\* what an earlier call passed nor what an unassigned local holds
OwnOrNone(n, k, name, passed, earlier) ==
    LET objs == doc.data.objects
        elem == canvas[n].cmds[k].elem
    IN  IF KeyPositions(objs, elem, name) = {}
        THEN passed \notin earlier \cup Uninitialised
        ELSE passed \in OwnReferences(objs, elem)

\* C15: a sub-range is drawn with the range, font and color of its own key
\* list; one that lacks the range, font or color key is passed neither the
\* reference of a sub-range drawn before it nor an unset value.
C15_SubRangeUsesOwnReferences ==
    \A n \in DOMAIN canvas :
       \A k \in SubRangeCalls(n) :
          LET cmds == canvas[n].cmds
              before == {j \in SubRangeCalls(n) : j < k}
          IN  /\ OwnOrNone(n, k, "subRangeRangeKey", cmds[k].range,
                           {cmds[j].range : j \in before})
              /\ OwnOrNone(n, k, "subRangeFontKey", cmds[k].font,
                           {cmds[j].font : j \in before})
              /\ OwnOrNone(n, k, "subRangeColorKey", cmds[k].color,
                           {cmds[j].color : j \in before})


(***************************************************************************)
(* Resources of note_document_open.                                        *)
(***************************************************************************)
\* C16: after an open that failed, and after an open followed by
\* note_document_free, none of the zip handle, the root-name buffer, the
\* document struct and the deserialized session plist is still held.
C16_NothingHeldAfterFailOrFree ==
    doc.pc \in {"failed", "freed"} => doc.held = {}

=============================================================================
